---- MODULE Spec2Model ----
(***************************************************************************)
(* Model of src/page-refresh/page-refresh.js: class PageRefresh, the host  *)
(* facilities it calls (URLSearchParams, parseInt, Date, setTimeout,       *)
(* clearTimeout, window.location.reload) and the page that embeds it.      *)
(*                                                                         *)
(* Strings are tuples of one-character strings.  A JavaScript number is a  *)
(* record [t, v]: t = "num" with the integer v, t = "NaN", or t = "null"   *)
(* for the value null.  The clock counts milliseconds of local time from   *)
(* 00:00:00.000 of day 0 in a zone with a fixed UTC offset, so every       *)
(* calendar day has DayMs milliseconds.  Timers fire exactly when their    *)
(* delay has elapsed and a reload takes no time.                           *)
(***************************************************************************)
EXTENDS Integers, Sequences, FiniteSets, TLC

(***************************************************************************)
(* Bounds of the model.                                                    *)
(***************************************************************************)
\* init() calls made on one PageRefresh instance
MaxInits == 2
\* page reloads in one behaviour
MaxReloads == 3
\* last calendar day (after day 0) the clock runs through
MaxDay == 1
\* milliseconds the clock may advance between the two `new Date()` of
\* setupRefreshAt (lines 74 and 75)
MaxClockGap == 1

(***************************************************************************)
(* JavaScript values.                                                      *)
(***************************************************************************)
Null == [t |-> "null", v |-> 0]
NaN == [t |-> "NaN", v |-> 0]
Num(n) == [t |-> "num", v |-> n]

isNaN(x) == x.t = "NaN"

\* the relational operators on numbers: every comparison with NaN is false
JsLt(a, b) == a.t = "num" /\ b.t = "num" /\ a.v < b.v
JsLe(a, b) == a.t = "num" /\ b.t = "num" /\ a.v <= b.v
JsGe(a, b) == a.t = "num" /\ b.t = "num" /\ a.v >= b.v

\* ToBoolean of a timer handle: null and 0 are falsy
Truthy(x) == x.t = "num" /\ x.v # 0

(***************************************************************************)
(* parseInt(string) with no radix argument.                                *)
(***************************************************************************)
WhiteSpace == {" "}

Digits == <<"0", "1", "2", "3", "4", "5", "6", "7", "8", "9">>
HexLetters == <<"a", "b", "c", "d", "e", "f">>

\* the value of character c as a digit, or -1 when it is none
DigitVal(c) ==
    IF \E i \in 1..Len(Digits) : Digits[i] = c
    THEN (CHOOSE i \in 1..Len(Digits) : Digits[i] = c) - 1
    ELSE IF \E i \in 1..Len(HexLetters) : HexLetters[i] = c
    THEN (CHOOSE i \in 1..Len(HexLetters) : HexLetters[i] = c) + 9
    ELSE -1

IsRadixDigit(c, R) == DigitVal(c) >= 0 /\ DigitVal(c) < R

RECURSIVE TrimStart(_)
TrimStart(s) ==
    IF s # <<>> /\ Head(s) \in WhiteSpace THEN TrimStart(Tail(s)) ELSE s

\* the longest prefix of s made of radix-R digits
RECURSIVE DigitPrefix(_, _)
DigitPrefix(s, R) ==
    IF s # <<>> /\ IsRadixDigit(Head(s), R)
    THEN <<Head(s)>> \o DigitPrefix(Tail(s), R)
    ELSE <<>>

\* the integer that the digit string z denotes in radix R, after acc
RECURSIVE MathInt(_, _, _)
MathInt(z, R, acc) ==
    IF z = <<>> THEN acc ELSE MathInt(Tail(z), R, acc * R + DigitVal(Head(z)))

parseInt(string) ==
    LET S0 == TrimStart(string)
        sign == IF S0 # <<>> /\ Head(S0) = "-" THEN -1 ELSE 1
        S1 == IF S0 # <<>> /\ Head(S0) \in {"+", "-"} THEN Tail(S0) ELSE S0
        hex == Len(S1) >= 2 /\ S1[1] = "0" /\ S1[2] \in {"x", "X"}
        R == IF hex THEN 16 ELSE 10
        S2 == IF hex THEN Tail(Tail(S1)) ELSE S1
        Z == DigitPrefix(S2, R)
    IN  IF Z = <<>> THEN NaN ELSE Num(sign * MathInt(Z, R, 0))

\* String.prototype.substring(start, end) for 0 <= start <= end
substring(s, start, end) ==
    LET e == IF end > Len(s) THEN Len(s) ELSE end
    IN  IF start >= e THEN <<>> ELSE SubSeq(s, start + 1, e)

(***************************************************************************)
(* Number.prototype.toString() and String.prototype.padStart.              *)
(***************************************************************************)
RECURSIVE NatToString(_)
NatToString(n) ==
    IF n < 10 THEN <<Digits[n + 1]>>
    ELSE NatToString(n \div 10) \o <<Digits[(n % 10) + 1]>>

toString(x) ==
    IF x.t = "NaN" THEN <<"N", "a", "N">>
    ELSE IF x.v < 0 THEN <<"-">> \o NatToString(-x.v)
    ELSE NatToString(x.v)

RECURSIVE padStart(_, _, _)
padStart(s, targetLength, padString) ==
    IF Len(s) >= targetLength THEN s
    ELSE padStart(<<padString>> \o s, targetLength, padString)

(***************************************************************************)
(* Date: a time value in milliseconds, or NaN (Invalid Date).              *)
(***************************************************************************)
DayMs == 24 * 60 * 60 * 1000

\* 00:00:00.000 of the calendar day that holds instant t
DayStart(t) == (t \div DayMs) * DayMs

\* the instant hh:mm:ss.mmm of day d
Instant(d, hh, mm, ss, ms) == d * DayMs + ((hh * 60 + mm) * 60 + ss) * 1000 + ms

\* Date.prototype.setHours(hours, minutes, 0, 0) on the date with time value t
setHours(t, hours, minutes) ==
    IF t.t # "num" \/ hours.t # "num" \/ minutes.t # "num" THEN NaN
    ELSE Num(DayStart(t.v) + (hours.v * 60 + minutes.v) * 60 * 1000)

\* targetTime.setDate(targetTime.getDate() + 1): the same time of the next day
setDateNextDay(t) == IF t.t # "num" THEN NaN ELSE Num(t.v + DayMs)

\* Date - Date
DateDiff(a, b) == IF a.t # "num" \/ b.t # "num" THEN NaN ELSE Num(a.v - b.v)

(***************************************************************************)
(* The host's timers.  setTimeout takes its delay as a 32-bit signed       *)
(* integer: the argument is reduced modulo 2^32 into -2^31 .. 2^31-1, NaN  *)
(* becomes 0, and a negative result counts as 0.  seconds * 1000 may pass  *)
(* 2^31, so a delay argument is kept as whole seconds and milliseconds:    *)
(* [nan, s, ms] stands for s * 1000 + ms.                                  *)
(***************************************************************************)
Millis(s, ms) == [nan |-> FALSE, s |-> s, ms |-> ms]
NaNMillis == [nan |-> TRUE, s |-> 0, ms |-> 0]

\* seconds * 1000 (line 49)
SecondsTimes1000(seconds) == Millis(seconds, 0)

\* a number of milliseconds in 0 .. 2^31-1 as a delay argument
ToMillis(x) == IF x.t # "num" THEN NaNMillis ELSE Millis(x.v \div 1000, x.v % 1000)

TwoTo32 == Millis(4294967, 296)
TwoTo31 == Millis(2147483, 648)

MillisGe(a, b) == a.s > b.s \/ (a.s = b.s /\ a.ms >= b.ms)
MillisSub(a, b) ==
    IF a.ms >= b.ms THEN Millis(a.s - b.s, a.ms - b.ms)
    ELSE Millis(a.s - b.s - 1, a.ms + 1000 - b.ms)

RECURSIVE ModTwoTo32(_)
ModTwoTo32(a) == IF MillisGe(a, TwoTo32) THEN ModTwoTo32(MillisSub(a, TwoTo32)) ELSE a

\* the delay in milliseconds the host waits for a setTimeout argument (one
\* below zero that is above -2^31 stays negative, and counts as 0)
HostDelay(arg) ==
    IF arg.nan \/ arg.s < 0 THEN 0
    ELSE LET m == ModTwoTo32(arg)
         IN  IF MillisGe(m, TwoTo31) THEN 0 ELSE m.s * 1000 + m.ms

(***************************************************************************)
(* window.location.search, as the list of its decoded name=value pairs.    *)
(***************************************************************************)
Absent == [present |-> FALSE, s |-> <<>>]
Value(s) == [present |-> TRUE, s |-> s]

\* URLSearchParams.get: the value of the first pair named param, or null
RECURSIVE URLSearchParamsGet(_, _)
URLSearchParamsGet(pairs, param) ==
    IF pairs = <<>> THEN Absent
    ELSE IF Head(pairs)[1] = param THEN Value(Head(pairs)[2])
    ELSE URLSearchParamsGet(Tail(pairs), param)

\* ToBoolean of a string or null: null and "" are falsy
TruthyParam(p) == p.present /\ p.s # <<>>

(***************************************************************************)
(* The state.                                                              *)
(***************************************************************************)
VARIABLES
    search,               \* window.location.search, kept across reloads
    now,                  \* the clock
    page,                 \* "loading" (also after location.reload()) or "loaded"
    refreshEveryTimeout,  \* this.refreshEveryTimeout
    refreshAtTimeout,     \* this.refreshAtTimeout
    config,               \* this.config
    timers,               \* the host's pending timers of this page
    nextId,               \* the handle the next setTimeout returns
    inits,                \* init() calls made on this instance
    startedAt,            \* when the page was first opened
    reloadedAt,           \* the instants of the reloads so far
    loadedAt,             \* when this page was loaded
    cancelled,            \* cancel() has returned and init() was not called since
    last                  \* the last operation and the clock readings it made

vars == <<search, now, page, refreshEveryTimeout, refreshAtTimeout, config,
          timers, nextId, inits, startedAt, reloadedAt, loadedAt, cancelled, last>>

\* the fields of a PageRefresh instance, with the host's timers it arms;
\* thrown tells that a call on it ended with an exception
Self == [refreshEveryTimeout |-> refreshEveryTimeout,
         refreshAtTimeout |-> refreshAtTimeout,
         config |-> config, timers |-> timers, nextId |-> nextId,
         thrown |-> FALSE]

NoRefreshAt == [set |-> FALSE, hours |-> Null, minutes |-> Null, targetTime |-> Null]

\* constructor (lines 12-20); a new page has no pending timer
constructor ==
    [refreshEveryTimeout |-> Null,
     refreshAtTimeout |-> Null,
     config |-> [refreshEvery |-> Null, refreshAt |-> NoRefreshAt,
                 statusMessages |-> <<>>],
     timers |-> {}, nextId |-> 1, thrown |-> FALSE]

getQueryParam(param) == URLSearchParamsGet(search, param)

(***************************************************************************)
(* Status messages: the text with the values interpolated into it.         *)
(***************************************************************************)
Message(text, args) == [text |-> text, args |-> args]

MsgInvalidEvery ==
    Message("Invalid refresh_every parameter (must be a positive number)", <<>>)
MsgEvery(seconds) ==
    Message("Auto-refresh enabled: Page will refresh every ${seconds} seconds",
            <<toString(seconds)>>)
MsgInvalidAt ==
    Message("Invalid refresh_at parameter (format should be hhmm, e.g., 1430 for 2:30 PM)",
            <<>>)
MsgAt(hours, minutes) ==
    Message("Auto-refresh enabled: Page will refresh at ${hh}:${mm}:00",
            <<padStart(toString(hours), 2, "0"), padStart(toString(minutes), 2, "0")>>)
MsgNone ==
    Message("No refresh parameters detected - page will not auto-refresh", <<>>)

push(self, msg) ==
    [self EXCEPT !.config.statusMessages = Append(@, msg)]

\* setTimeout as a host that keeps one pending timer would have it: arming a
\* timer drops the one armed before
setTimeout_OneSlot(self, kind, arg, t) ==
    [self EXCEPT !.timers = {[id |-> self.nextId, kind |-> kind, arg |-> arg,
                              at |-> t, delay |-> HostDelay(arg)]},
                 !.nextId = @ + 1]

\* setTimeout(() => window.location.reload(), arg) called at instant t: the
\* timer of the returned handle self.nextId is pending
setTimeout(self, kind, arg, t) ==
    [self EXCEPT !.timers = @ \cup {[id |-> self.nextId, kind |-> kind, arg |-> arg,
                                     at |-> t, delay |-> HostDelay(arg)]},
                 !.nextId = @ + 1]

\* clearTimeout(handle)
clearTimeout(self, handle) ==
    [self EXCEPT !.timers = {tm \in @ : tm.id # handle.v}]

(***************************************************************************)
(* class PageRefresh.                                                      *)
(***************************************************************************)
\* setupRefreshEvery with `seconds < 0` for the `seconds <= 0` of line 40
setupRefreshEvery_ZeroAccepted(self, refreshEvery, t) ==
    LET seconds == parseInt(refreshEvery)
    IN  IF isNaN(seconds) \/ JsLt(seconds, Num(0))
        THEN push(self, MsgInvalidEvery)
        ELSE LET stored == [self EXCEPT !.config.refreshEvery = seconds]
                 logged == push(stored, MsgEvery(seconds))
                 armed == setTimeout(logged, "every", SecondsTimes1000(seconds.v), t)
             IN  [armed EXCEPT !.refreshEveryTimeout = Num(logged.nextId)]

\* setupRefreshEvery without the `return false` of line 42
setupRefreshEvery_NoReturn(self, refreshEvery, t) ==
    LET seconds == parseInt(refreshEvery)
        checked == IF isNaN(seconds) \/ JsLe(seconds, Num(0))
                   THEN push(self, MsgInvalidEvery) ELSE self
        stored == [checked EXCEPT !.config.refreshEvery = seconds]
        logged == push(stored, MsgEvery(seconds))
        delay == IF isNaN(seconds) THEN NaNMillis ELSE SecondsTimes1000(seconds.v)
        armed == setTimeout(logged, "every", delay, t)
    IN  [armed EXCEPT !.refreshEveryTimeout = Num(logged.nextId)]

\* setupRefreshEvery(refreshEvery) called at instant t (lines 37-52)
setupRefreshEvery(self, refreshEvery, t) ==
    LET seconds == parseInt(refreshEvery)
    IN  IF isNaN(seconds) \/ JsLe(seconds, Num(0))
        THEN push(self, MsgInvalidEvery)
        ELSE LET stored == [self EXCEPT !.config.refreshEvery = seconds]
                 logged == push(stored, MsgEvery(seconds))
                 armed == setTimeout(logged, "every", SecondsTimes1000(seconds.v), t)
             IN  [armed EXCEPT !.refreshEveryTimeout = Num(logged.nextId)]

\* refreshAt.toString() of line 60 on null: a TypeError ends the call
throw(self) == [self EXCEPT !.thrown = TRUE]

\* setupRefreshAt with `targetTime < now` for the `targetTime <= now` of line 79
setupRefreshAt_StrictlyPast(self, refreshAt, t1, t2) ==
    LET timeStr == refreshAt.s
        hours == parseInt(substring(timeStr, 0, 2))
        minutes == parseInt(substring(timeStr, 2, 4))
    IN  IF ~refreshAt.present
        THEN throw(self)
        ELSE IF Len(timeStr) # 4
        THEN push(self, MsgInvalidAt)
        ELSE IF JsLt(hours, Num(0)) \/ JsGe(hours, Num(24))
                \/ JsLt(minutes, Num(0)) \/ JsGe(minutes, Num(60))
        THEN push(self, MsgInvalidAt)
        ELSE LET nowDate == Num(t1)
                 today == setHours(Num(t2), hours, minutes)
                 targetTime == IF JsLt(today, nowDate) THEN setDateNextDay(today)
                               ELSE today
                 timeUntilRefresh == DateDiff(targetTime, nowDate)
                 stored == [self EXCEPT !.config.refreshAt =
                               [set |-> TRUE, hours |-> hours, minutes |-> minutes,
                                targetTime |-> targetTime]]
                 logged == push(stored, MsgAt(hours, minutes))
                 armed == setTimeout(logged, "at", ToMillis(timeUntilRefresh), t1)
             IN  [armed EXCEPT !.refreshAtTimeout = Num(logged.nextId)]

\* setupRefreshAt with `targetTime >= now` for the `targetTime <= now` of line 79
setupRefreshAt_Inverted(self, refreshAt, t1, t2) ==
    LET timeStr == refreshAt.s
        hours == parseInt(substring(timeStr, 0, 2))
        minutes == parseInt(substring(timeStr, 2, 4))
    IN  IF ~refreshAt.present
        THEN throw(self)
        ELSE IF Len(timeStr) # 4
        THEN push(self, MsgInvalidAt)
        ELSE IF JsLt(hours, Num(0)) \/ JsGe(hours, Num(24))
                \/ JsLt(minutes, Num(0)) \/ JsGe(minutes, Num(60))
        THEN push(self, MsgInvalidAt)
        ELSE LET nowDate == Num(t1)
                 today == setHours(Num(t2), hours, minutes)
                 targetTime == IF JsGe(today, nowDate) THEN setDateNextDay(today)
                               ELSE today
                 timeUntilRefresh == DateDiff(targetTime, nowDate)
                 stored == [self EXCEPT !.config.refreshAt =
                               [set |-> TRUE, hours |-> hours, minutes |-> minutes,
                                targetTime |-> targetTime]]
                 logged == push(stored, MsgAt(hours, minutes))
                 armed == setTimeout(logged, "at", ToMillis(timeUntilRefresh), t1)
             IN  [armed EXCEPT !.refreshAtTimeout = Num(logged.nextId)]

\* setupRefreshAt(refreshAt) called at instant t1, whose second `new Date()`
\* reads t2 (lines 59-95); refreshAt is a string or null
setupRefreshAt(self, refreshAt, t1, t2) ==
    LET timeStr == refreshAt.s
        hours == parseInt(substring(timeStr, 0, 2))
        minutes == parseInt(substring(timeStr, 2, 4))
    IN  IF ~refreshAt.present
        THEN throw(self)
        ELSE IF Len(timeStr) # 4
        THEN push(self, MsgInvalidAt)
        ELSE IF JsLt(hours, Num(0)) \/ JsGe(hours, Num(24))
                \/ JsLt(minutes, Num(0)) \/ JsGe(minutes, Num(60))
        THEN push(self, MsgInvalidAt)
        ELSE LET nowDate == Num(t1)
                 today == setHours(Num(t2), hours, minutes)
                 targetTime == IF JsLe(today, nowDate) THEN setDateNextDay(today)
                               ELSE today
                 timeUntilRefresh == DateDiff(targetTime, nowDate)
                 stored == [self EXCEPT !.config.refreshAt =
                               [set |-> TRUE, hours |-> hours, minutes |-> minutes,
                                targetTime |-> targetTime]]
                 logged == push(stored, MsgAt(hours, minutes))
                 armed == setTimeout(logged, "at", ToMillis(timeUntilRefresh), t1)
             IN  [armed EXCEPT !.refreshAtTimeout = Num(logged.nextId)]

\* init() with `else if (refreshAt)` for the `if (refreshAt)` of line 109
init_ElseIf(self, t1, t2) ==
    LET refreshEvery == getQueryParam("refresh_every")
        refreshAt == getQueryParam("refresh_at")
        s1 == IF TruthyParam(refreshEvery)
              THEN setupRefreshEvery(self, refreshEvery.s, t1)
              ELSE IF TruthyParam(refreshAt)
              THEN setupRefreshAt(self, refreshAt, t1, t2) ELSE self
    IN  IF ~TruthyParam(refreshEvery) /\ ~TruthyParam(refreshAt)
        THEN push(s1, MsgNone) ELSE s1

\* init() without the `if (refreshAt)` of line 109 around setupRefreshAt
init_NoGuard(self, t1, t2) ==
    LET refreshEvery == getQueryParam("refresh_every")
        refreshAt == getQueryParam("refresh_at")
        s1 == IF TruthyParam(refreshEvery)
              THEN setupRefreshEvery(self, refreshEvery.s, t1) ELSE self
        s2 == setupRefreshAt(s1, refreshAt, t1, t2)
    IN  IF s2.thrown THEN s2
        ELSE IF ~TruthyParam(refreshEvery) /\ ~TruthyParam(refreshAt)
        THEN push(s2, MsgNone) ELSE s2

\* init() with `refreshEvery && refreshAt` for the condition of line 113
init_NoneWhenBoth(self, t1, t2) ==
    LET refreshEvery == getQueryParam("refresh_every")
        refreshAt == getQueryParam("refresh_at")
        s1 == IF TruthyParam(refreshEvery)
              THEN setupRefreshEvery(self, refreshEvery.s, t1) ELSE self
        s2 == IF TruthyParam(refreshAt)
              THEN setupRefreshAt(s1, refreshAt, t1, t2) ELSE s1
    IN  IF s2.thrown THEN s2
        ELSE IF TruthyParam(refreshEvery) /\ TruthyParam(refreshAt)
        THEN push(s2, MsgNone) ELSE s2

\* init() with `!== null` tests for the truthiness tests of lines 105-113
init_NotNull(self, t1, t2) ==
    LET refreshEvery == getQueryParam("refresh_every")
        refreshAt == getQueryParam("refresh_at")
        s1 == IF refreshEvery.present
              THEN setupRefreshEvery(self, refreshEvery.s, t1) ELSE self
        s2 == IF refreshAt.present
              THEN setupRefreshAt(s1, refreshAt, t1, t2) ELSE s1
    IN  IF s2.thrown THEN s2
        ELSE IF ~refreshEvery.present /\ ~refreshAt.present
        THEN push(s2, MsgNone) ELSE s2

\* init() called at instant t1 (lines 101-118)
init(self, t1, t2) ==
    LET refreshEvery == getQueryParam("refresh_every")
        refreshAt == getQueryParam("refresh_at")
        s1 == IF TruthyParam(refreshEvery)
              THEN setupRefreshEvery(self, refreshEvery.s, t1) ELSE self
        s2 == IF TruthyParam(refreshAt)
              THEN setupRefreshAt(s1, refreshAt, t1, t2) ELSE s1
    IN  IF s2.thrown THEN s2
        ELSE IF ~TruthyParam(refreshEvery) /\ ~TruthyParam(refreshAt)
        THEN push(s2, MsgNone) ELSE s2

\* cancel() with `else if` for the second `if` of line 128
cancel_ElseIf(self) ==
    IF Truthy(self.refreshEveryTimeout)
    THEN [clearTimeout(self, self.refreshEveryTimeout) EXCEPT !.refreshEveryTimeout = Null]
    ELSE IF Truthy(self.refreshAtTimeout)
    THEN [clearTimeout(self, self.refreshAtTimeout) EXCEPT !.refreshAtTimeout = Null]
    ELSE self

\* cancel() that also empties statusMessages
cancel_ClearMessages(self) ==
    LET s1 == IF Truthy(self.refreshEveryTimeout)
              THEN [clearTimeout(self, self.refreshEveryTimeout)
                        EXCEPT !.refreshEveryTimeout = Null]
              ELSE self
        s2 == IF Truthy(s1.refreshAtTimeout)
              THEN [clearTimeout(s1, s1.refreshAtTimeout) EXCEPT !.refreshAtTimeout = Null]
              ELSE s1
    IN  [s2 EXCEPT !.config.statusMessages = <<>>]

\* cancel() (lines 123-132)
cancel(self) ==
    LET s1 == IF Truthy(self.refreshEveryTimeout)
              THEN [clearTimeout(self, self.refreshEveryTimeout)
                        EXCEPT !.refreshEveryTimeout = Null]
              ELSE self
    IN  IF Truthy(s1.refreshAtTimeout)
        THEN [clearTimeout(s1, s1.refreshAtTimeout) EXCEPT !.refreshAtTimeout = Null]
        ELSE s1

\* getConfig() (lines 138-140)
getConfig(self) == self.config

(***************************************************************************)
(* The inputs: the query strings and the instants a behaviour starts at.   *)
(***************************************************************************)
EveryStrings ==
    {<<>>, <<"0">>, <<"2">>, <<"2", "0">>, <<"-", "2">>, <<"a", "b", "c">>,
     <<"2", "x">>, <<" ", "2">>, <<"0", "x", "2">>,
     <<"2", "1", "4", "7", "4", "8", "3">>, <<"2", "1", "4", "7", "4", "8", "4">>}
EveryValues == {Absent} \cup {Value(s) : s \in EveryStrings}

AtStrings ==
    {<<>>, <<"9", "3", "0">>, <<"0", "9", "0", "0", "0">>,
     <<"0", "0", "0", "0">>, <<"0", "9", "0", "0">>, <<"1", "4", "3", "0">>,
     <<"2", "3", "5", "9">>, <<"2", "4", "0", "0">>, <<"0", "0", "6", "0">>,
     <<"-", "1", "0", "0">>, <<"a", "b", "1", "2">>, <<"1", "2", "c", "d">>,
     <<" ", "9", "3", "x">>}
AtValues == {Absent} \cup {Value(s) : s \in AtStrings}

Query(every, at) ==
    (IF every.present THEN << <<"refresh_every", every.s>> >> ELSE <<>>)
    \o (IF at.present THEN << <<"refresh_at", at.s>> >> ELSE <<>>)

Searches == {Query(e, a) : e \in EveryValues, a \in AtValues}

StartInstants ==
    {Instant(0, 0, 0, 0, 0), Instant(0, 8, 59, 59, 999), Instant(0, 9, 0, 0, 0),
     Instant(0, 10, 0, 0, 0), Instant(0, 14, 29, 57, 0), Instant(0, 23, 59, 59, 999)}

\* the clock stops at the end of day MaxDay
Horizon == (MaxDay + 1) * DayMs

(***************************************************************************)
(* The operations.                                                         *)
(***************************************************************************)
Op(name, t1, t2, id) == [op |-> name, t1 |-> t1, t2 |-> t2, id |-> id]

\* the instance and the host's timers become self
Becomes(self) ==
    /\ refreshEveryTimeout' = self.refreshEveryTimeout
    /\ refreshAtTimeout' = self.refreshAtTimeout
    /\ config' = self.config
    /\ timers' = self.timers
    /\ nextId' = self.nextId

Init ==
    /\ search \in Searches
    /\ now \in StartInstants
    /\ page = "loading"
    /\ refreshEveryTimeout = constructor.refreshEveryTimeout
    /\ refreshAtTimeout = constructor.refreshAtTimeout
    /\ config = constructor.config
    /\ timers = {}
    /\ nextId = 1
    /\ inits = 0
    /\ startedAt = now
    /\ reloadedAt = <<>>
    /\ loadedAt = now
    /\ cancelled = FALSE
    /\ last = Op("open", now, now, 0)

\* the page's script runs `new PageRefresh()`; under Spec a behaviour follows
\* one page from its load to the reload that ends it
Load ==
    /\ page = "loading"
    /\ reloadedAt = <<>>
    /\ page' = "loaded"
    /\ Becomes(constructor)
    /\ inits' = 0
    /\ loadedAt' = now
    /\ cancelled' = FALSE
    /\ last' = Op("new", now, now, 0)
    /\ UNCHANGED <<search, now, startedAt, reloadedAt>>

\* the record of an init() called at instant t1 that turned self into result:
\* t2 is the reading of line 75 when setupRefreshAt came to it
InitOp(self, result, t1, t2) ==
    Op(IF result.thrown THEN "throw" ELSE "init",
       t1, IF result.refreshAtTimeout # self.refreshAtTimeout THEN t2 ELSE t1, 0)

\* the second clock reading of an init() called at instant t
SecondReadings(t) ==
    IF TruthyParam(getQueryParam("refresh_at")) THEN {t + g : g \in 0..MaxClockGap}
    ELSE {t}

\* a call of init()
CallInit ==
    /\ page = "loaded"
    /\ inits < MaxInits
    /\ \E t2 \in SecondReadings(now) :
          /\ Becomes(init(Self, now, t2))
          /\ last' = InitOp(Self, init(Self, now, t2), now, t2)
    /\ inits' = inits + 1
    /\ cancelled' = FALSE
    /\ UNCHANGED <<search, now, page, startedAt, reloadedAt, loadedAt>>

\* a call of cancel()
CallCancel ==
    /\ page = "loaded"
    /\ Becomes(cancel(Self))
    /\ cancelled' = TRUE
    /\ last' = Op("cancel", now, now, 0)
    /\ UNCHANGED <<search, now, page, inits, startedAt, reloadedAt, loadedAt>>

\* timer tm is due at the current instant
Due(tm) == now - tm.at = tm.delay

\* window.location.reload(): the page and its pending timers are discarded
Reload(tm) ==
    /\ page = "loaded"
    /\ Len(reloadedAt) < MaxReloads
    /\ Due(tm)
    /\ page' = "loading"
    /\ timers' = {}
    /\ reloadedAt' = Append(reloadedAt, now)
    /\ last' = Op(tm.kind, tm.at, now, tm.id)
    /\ UNCHANGED <<search, now, refreshEveryTimeout, refreshAtTimeout, config,
                   nextId, inits, startedAt, loadedAt, cancelled>>

\* the callback of a timer armed by setupRefreshEvery runs (lines 47-49)
FireEvery == \E tm \in timers : tm.kind = "every" /\ Reload(tm)

\* the callback of a timer armed by setupRefreshAt runs (lines 90-92)
FireAt == \E tm \in timers : tm.kind = "at" /\ Reload(tm)

\* the instants the clock may advance to: when a pending timer is due, and
\* the next midnight
TickTargets ==
    {tm.at + tm.delay : tm \in {x \in timers : x.delay <= Horizon}}
    \cup {DayStart(now) + DayMs}

\* time passes, but not past the instant a pending timer is due at
Tick ==
    /\ page = "loaded"
    /\ \E t \in TickTargets :
          /\ now < t
          /\ t <= Horizon
          /\ \A tm \in timers : t - tm.at <= tm.delay
          /\ now' = t
    /\ UNCHANGED <<search, page, refreshEveryTimeout, refreshAtTimeout, config,
                   timers, nextId, inits, startedAt, reloadedAt, loadedAt,
                   cancelled, last>>

Next == Load \/ CallInit \/ CallCancel \/ FireEvery \/ FireAt \/ Tick

Spec == Init /\ [][Next]_vars

(***************************************************************************)
(* The page of the README (lines 26-35): every load runs                   *)
(* `new PageRefresh()` and init() once, and never calls cancel().          *)
(***************************************************************************)
LoadAndInit ==
    /\ page = "loading"
    /\ page' = "loaded"
    /\ \E t2 \in SecondReadings(now) :
          /\ Becomes(init(constructor, now, t2))
          /\ last' = InitOp(constructor, init(constructor, now, t2), now, t2)
    /\ inits' = 1
    /\ loadedAt' = now
    /\ cancelled' = FALSE
    /\ UNCHANGED <<search, now, startedAt, reloadedAt>>

NextPage == LoadAndInit \/ FireEvery \/ FireAt \/ Tick

SpecPage == Init /\ [][NextPage]_vars

(***************************************************************************)
(* What the claims speak of.                                               *)
(***************************************************************************)
everyParam == getQueryParam("refresh_every")
atParam == getQueryParam("refresh_at")

DecimalDigits == {Digits[i] : i \in 1..Len(Digits)}
IsDigitString(s) == s # <<>> /\ \A i \in 1..Len(s) : s[i] \in DecimalDigits

\* the number a string of decimal digits denotes
RECURSIVE DecimalValue(_)
DecimalValue(s) ==
    IF s = <<>> THEN 0
    ELSE 10 * DecimalValue(SubSeq(s, 1, Len(s) - 1)) + DigitVal(s[Len(s)])

\* refresh_every=N for a positive integer N
EveryIsPositiveInteger ==
    everyParam.present /\ IsDigitString(everyParam.s) /\ DecimalValue(everyParam.s) > 0
EveryN == DecimalValue(everyParam.s)

\* a number: an optional sign and decimal digits
IsNumeric(s) ==
    IF s # <<>> /\ Head(s) \in {"+", "-"} THEN IsDigitString(Tail(s))
    ELSE IsDigitString(s)
SignedValue(s) ==
    IF Head(s) = "-" THEN -DecimalValue(Tail(s))
    ELSE IF Head(s) = "+" THEN DecimalValue(Tail(s))
    ELSE DecimalValue(s)

\* refresh_at=hhmm with hh in 0..23 and mm in 0..59
AtIsHHMM ==
    /\ atParam.present
    /\ Len(atParam.s) = 4
    /\ IsDigitString(atParam.s)
    /\ DecimalValue(SubSeq(atParam.s, 1, 2)) \in 0..23
    /\ DecimalValue(SubSeq(atParam.s, 3, 4)) \in 0..59
AtHH == DecimalValue(SubSeq(atParam.s, 1, 2))
AtMM == DecimalValue(SubSeq(atParam.s, 3, 4))

\* init() has just returned from its first call on this instance
AfterFirstInit == page = "loaded" /\ inits = 1 /\ last.op = "init"

Messages == {config.statusMessages[i] : i \in 1..Len(config.statusMessages)}
PendingEvery == {tm \in timers : tm.kind = "every"}
PendingAt == {tm \in timers : tm.kind = "at"}

\* the number of milliseconds d is exactly n * 1000
IsSeconds(d, n) == d \div 1000 = n /\ d % 1000 = 0

(***************************************************************************)
(* C1.  Once cancel() has returned and init() is not called again, no      *)
(* timer this instance armed earlier fires and reloads the page.           *)
(***************************************************************************)
C1_CancelStopsAllTimers == cancelled => page = "loaded"

(***************************************************************************)
(* C2.  If config.refreshAt is set, hours is an integer in 0..23 and       *)
(* minutes an integer in 0..59, and no absolute-time timer is armed        *)
(* otherwise.                                                              *)
(***************************************************************************)
RefreshAtInRange ==
    /\ config.refreshAt.set
    /\ config.refreshAt.hours.t = "num" /\ config.refreshAt.hours.v \in 0..23
    /\ config.refreshAt.minutes.t = "num" /\ config.refreshAt.minutes.v \in 0..59

C2_RefreshAtInRange ==
    /\ config.refreshAt.set => RefreshAtInRange
    /\ PendingAt # {} => RefreshAtInRange

(***************************************************************************)
(* C3.  init() with refresh_every=N, N a positive integer, sets            *)
(* config.refreshEvery to N, records the confirming message with N in it   *)
(* and arms one timer that reloads the page after exactly N * 1000 ms.     *)
(***************************************************************************)
C3_EveryArmsExactTimer ==
    AfterFirstInit /\ EveryIsPositiveInteger =>
        /\ config.refreshEvery = Num(EveryN)
        /\ MsgEvery(Num(EveryN)) \in Messages
        /\ Cardinality(PendingEvery) = 1
        /\ \A tm \in PendingEvery : tm.at = last.t1 /\ IsSeconds(tm.delay, EveryN)

(***************************************************************************)
(* C4.  For a refresh_every value that is not a number or not positive,    *)
(* init() arms no interval timer, records the invalid-input message and    *)
(* leaves config.refreshEvery null.                                        *)
(***************************************************************************)
EveryIsInvalid ==
    /\ everyParam.present
    /\ ~IsNumeric(everyParam.s) \/ SignedValue(everyParam.s) <= 0

C4_InvalidEveryRejected ==
    AfterFirstInit /\ EveryIsInvalid =>
        /\ PendingEvery = {}
        /\ MsgInvalidEvery \in Messages
        /\ config.refreshEvery = Null

(***************************************************************************)
(* C5.  For a valid hhmm and the instant init() reads as `now`: if         *)
(* hh:mm:00.000 of that day is strictly after it, targetTime is that       *)
(* instant; otherwise targetTime is hh:mm:00.000 of the next calendar day. *)
(***************************************************************************)
TodayAtHHMM == Instant(last.t1 \div DayMs, AtHH, AtMM, 0, 0)

C5_TargetTodayOrTomorrow ==
    last.op = "init" /\ AtIsHHMM =>
        /\ config.refreshAt.set
        /\ config.refreshAt.targetTime =
               Num(IF TodayAtHHMM > last.t1 THEN TodayAtHHMM ELSE TodayAtHHMM + DayMs)

\* init() ran at exactly hh:mm:00.000 and the target is the next day's
C5_Witness ==
    /\ last.op = "init" /\ AtIsHHMM
    /\ TodayAtHHMM = last.t1
    /\ config.refreshAt.targetTime = Num(last.t1 + DayMs)

(***************************************************************************)
(* C6.  For a refresh_at string that is not exactly 4 characters long, or  *)
(* whose hour is not in 0..23 or whose minute is not in 0..59, init() arms *)
(* no absolute-time timer and records the invalid-input message.           *)
(***************************************************************************)
InRange(s, lo, hi) == IsNumeric(s) /\ SignedValue(s) \in lo..hi

AtIsInvalid ==
    /\ atParam.present
    /\ \/ Len(atParam.s) # 4
       \/ ~InRange(SubSeq(atParam.s, 1, 2), 0, 23)
       \/ ~InRange(SubSeq(atParam.s, 3, 4), 0, 59)

C6_InvalidAtRejected ==
    AfterFirstInit /\ AtIsInvalid =>
        /\ PendingAt = {}
        /\ MsgInvalidAt \in Messages

(***************************************************************************)
(* C7.  Whenever init() stores config.refreshAt, its targetTime is         *)
(* strictly later than the clock reading `now` of that call, and the       *)
(* absolute-time timer is armed with a strictly positive delay.            *)
(***************************************************************************)
C7_TargetStrictlyFuture ==
    last.op = "init" /\ config.refreshAt.set =>
        /\ config.refreshAt.targetTime.t = "num"
        /\ config.refreshAt.targetTime.v > last.t1
        /\ \A tm \in PendingAt : tm.id = refreshAtTimeout.v => tm.delay > 0

(***************************************************************************)
(* C8.  Under SpecPage, with refresh_every=N as the only directive, every  *)
(* page load is followed by a reload exactly N seconds later.              *)
(***************************************************************************)
\* the instant of the page load that reload i ended
LoadBefore(i) == IF i = 1 THEN startedAt ELSE reloadedAt[i - 1]

OnlyEvery == EveryIsPositiveInteger /\ ~atParam.present

C8_ReloadEveryNSeconds ==
    OnlyEvery =>
        /\ \A i \in 1..Len(reloadedAt) : IsSeconds(reloadedAt[i] - LoadBefore(i), EveryN)
        /\ page = "loaded" => PendingEvery # {}

(***************************************************************************)
(* C9.  Under SpecPage, with refresh_every=N and a valid refresh_at=hhmm,  *)
(* both timers are pending on every loaded page, the clock does not pass   *)
(* the next occurrence of hh:mm:00.000 without a reload at that instant,   *)
(* and no page outlives N seconds.                                         *)
(***************************************************************************)
NextOccurrence(t) ==
    LET today == Instant(t \div DayMs, AtHH, AtMM, 0, 0)
    IN  IF today > t THEN today ELSE today + DayMs

AtMostSeconds(d, n) == d \div 1000 < n \/ IsSeconds(d, n)

BothDirectives == EveryIsPositiveInteger /\ AtIsHHMM

C9_BothStayActive ==
    BothDirectives =>
        /\ now > NextOccurrence(startedAt) =>
               \E i \in 1..Len(reloadedAt) : reloadedAt[i] = NextOccurrence(startedAt)
        /\ \A i \in 1..Len(reloadedAt) :
               AtMostSeconds(reloadedAt[i] - LoadBefore(i), EveryN)
        /\ page = "loaded" =>
               /\ PendingEvery # {} /\ PendingAt # {}
               /\ AtMostSeconds(now - loadedAt, EveryN)

\* after a reload by the interval timer, the absolute-time timer reloads the
\* page at the next occurrence of hh:mm:00.000
C9_Witness ==
    /\ BothDirectives
    /\ page = "loading" /\ last.op = "at"
    /\ Len(reloadedAt) = 2
    /\ reloadedAt[1] < NextOccurrence(startedAt)
    /\ reloadedAt[2] = NextOccurrence(startedAt)

(***************************************************************************)
(* C10.  What init() does for one directive (the timer it arms and its     *)
(* delay, the config field it stores, the status message it records) is    *)
(* what that directive's setup does on a new instance by itself, whatever  *)
(* the other directive is.                                                 *)
(***************************************************************************)
IsEveryMessage(m) == m.text \in {MsgInvalidEvery.text, MsgEvery(Num(1)).text}
IsAtMessage(m) == m.text \in {MsgInvalidAt.text, MsgAt(Num(0), Num(0)).text}

Armed(self, kind) ==
    {[arg |-> tm.arg, at |-> tm.at, delay |-> tm.delay] :
        tm \in {x \in self.timers : x.kind = kind}}

EveryOutcome(self) ==
    [armed |-> Armed(self, "every"),
     stored |-> self.config.refreshEvery,
     messages |-> SelectSeq(self.config.statusMessages, IsEveryMessage)]

AtOutcome(self) ==
    [armed |-> Armed(self, "at"),
     stored |-> self.config.refreshAt,
     messages |-> SelectSeq(self.config.statusMessages, IsAtMessage)]

EveryAlone ==
    IF TruthyParam(everyParam)
    THEN setupRefreshEvery(constructor, everyParam.s, last.t1) ELSE constructor

AtAlone ==
    IF TruthyParam(atParam)
    THEN setupRefreshAt(constructor, atParam, last.t1, last.t2) ELSE constructor

C10_DirectivesIndependent ==
    AfterFirstInit =>
        /\ EveryOutcome(Self) = EveryOutcome(EveryAlone)
        /\ AtOutcome(Self) = AtOutcome(AtAlone)

\* refresh_every is accepted and armed next to a refresh_at that is rejected
C10_Witness ==
    /\ AfterFirstInit
    /\ PendingEvery # {} /\ config.refreshEvery # Null
    /\ PendingAt = {} /\ MsgInvalidAt \in Messages
    /\ Len(config.statusMessages) = 2

(***************************************************************************)
(* C11  cancel() is idempotent.                                            *)
(***************************************************************************)
NoHandleSet == ~Truthy(refreshEveryTimeout) /\ ~Truthy(refreshAtTimeout)

\* C11: on every instance the page can hold, cancel() twice in a row leaves
\* what cancel() once leaves; with no handle set (before init(), after only
\* rejected directives, after a cancel()) cancel() changes nothing; and it
\* never ends with an exception.
C11_CancelIdempotent ==
    page = "loaded" =>
        /\ cancel(cancel(Self)) = cancel(Self)
        /\ NoHandleSet => cancel(Self) = Self
        /\ last.op = "cancel" => NoHandleSet
        /\ ~cancel(Self).thrown

\* cancel() has run on an instance that had armed both timers
C11_Witness ==
    /\ page = "loaded" /\ last.op = "cancel"
    /\ config.refreshEvery # Null /\ config.refreshAt.set
    /\ NoHandleSet

(***************************************************************************)
(* C12  cancel() leaves the configuration alone.                           *)
(***************************************************************************)
\* C12: a cancel() changes neither config.refreshEvery nor config.refreshAt
\* nor statusMessages: what getConfig() returns after it is what it returned
\* before; of the instance only the two timer handles (and with them the
\* host's pending timers) change.
C12_CancelKeepsConfig ==
    page = "loaded" =>
        /\ getConfig(cancel(Self)) = getConfig(Self)
        /\ cancel(Self) = [Self EXCEPT !.refreshEveryTimeout = cancel(Self).refreshEveryTimeout,
                                       !.refreshAtTimeout = cancel(Self).refreshAtTimeout,
                                       !.timers = cancel(Self).timers]
        /\ last.op = "cancel" => config.statusMessages # <<>> \/ inits = 0

\* cancel() has run after an init() that recorded two messages and armed both timers
C12_Witness ==
    /\ page = "loaded" /\ last.op = "cancel" /\ cancelled
    /\ Len(config.statusMessages) = 2
    /\ config.refreshEvery # Null /\ config.refreshAt.set
    /\ refreshEveryTimeout = Null /\ refreshAtTimeout = Null

(***************************************************************************)
(* C13  init() never ends with an exception.                               *)
(***************************************************************************)
\* C13: whatever refresh_every and refresh_at hold, no init() ends with an
\* exception: every init() made has returned this.config, the next one on
\* any reachable instance returns too, and after the first init() a directive
\* that was processed and armed no timer has its invalid-input message in
\* statusMessages.
C13_InitNeverThrows ==
    /\ last.op # "throw"
    /\ page = "loaded" =>
           \A t2 \in SecondReadings(now) : ~init(Self, now, t2).thrown
    /\ AfterFirstInit =>
           /\ TruthyParam(everyParam) /\ ~Truthy(refreshEveryTimeout)
                  => MsgInvalidEvery \in Messages
           /\ TruthyParam(atParam) /\ ~Truthy(refreshAtTimeout)
                  => MsgInvalidAt \in Messages

\* init() has returned after rejecting both directives
C13_Witness ==
    /\ AfterFirstInit
    /\ TruthyParam(everyParam) /\ TruthyParam(atParam)
    /\ config.statusMessages = <<MsgInvalidEvery, MsgInvalidAt>>
    /\ timers = {}

(***************************************************************************)
(* C14  A URL with neither parameter.                                      *)
(***************************************************************************)
NeitherParam == ~everyParam.present /\ ~atParam.present

\* C14: when the URL has neither refresh_every nor refresh_at, the first
\* init() leaves exactly the no-auto-refresh message in statusMessages, both
\* configuration fields stay null, no timer is ever armed and the page is
\* never reloaded.
C14_NeitherParameter ==
    NeitherParam =>
        /\ AfterFirstInit => config.statusMessages = <<MsgNone>>
        /\ config.refreshEvery = Null /\ config.refreshAt = NoRefreshAt
        /\ refreshEveryTimeout = Null /\ refreshAtTimeout = Null
        /\ timers = {} /\ nextId = 1
        /\ reloadedAt = <<>>

\* a page without parameters whose init() returned some time ago
C14_Witness ==
    /\ NeitherParam /\ page = "loaded" /\ inits = 1
    /\ config.statusMessages = <<MsgNone>>
    /\ now > loadedAt

(***************************************************************************)
(* C15  Each timer is armed at most once in a page lifetime.               *)
(***************************************************************************)
\* the number of setTimeout calls made since the page loaded
ArmedSoFar == nextId - 1

\* the number of kinds of timer the stored configuration accounts for
KindsConfigured ==
    (IF config.refreshEvery # Null THEN 1 ELSE 0) + (IF config.refreshAt.set THEN 1 ELSE 0)

\* C15: under any sequence of init() and cancel() within one page lifetime a
\* timer of a given kind is armed at most once: there are never two pending
\* timers of one kind, and no more timers were armed than there are kinds
\* configured (so none was armed again after a cancel()).
C15_ArmedAtMostOnce ==
    /\ Cardinality(PendingEvery) <= 1
    /\ Cardinality(PendingAt) <= 1
    /\ ArmedSoFar <= KindsConfigured

(***************************************************************************)
(* C16  With both timers armed, the one with the smaller delay fires.      *)
(***************************************************************************)
\* the page that has just been reloaded had armed both timers, with numbers
BothArmed ==
    /\ page = "loading" /\ reloadedAt # <<>>
    /\ config.refreshEvery # Null
    /\ config.refreshAt.set /\ ~isNaN(config.refreshAt.targetTime)

\* the delays lines 49 and 83 computed for them (both armed at last.t1)
EveryDelay == SecondsTimes1000(config.refreshEvery.v)
AtDelay == ToMillis(DateDiff(config.refreshAt.targetTime, Num(last.t1)))

StrictlySmaller(a, b) == ~MillisGe(a, b)

\* C16: when a page armed both timers and cancelled neither, the one that
\* fired is not the one with the strictly larger delay, and its reload left
\* no timer of the page pending.
C16_SmallerDelayFiresFirst ==
    BothArmed =>
        /\ last.op = "every" => ~StrictlySmaller(AtDelay, EveryDelay)
        /\ last.op = "at" => ~StrictlySmaller(EveryDelay, AtDelay)
        /\ timers = {}

(***************************************************************************)
(* C17  The interval timer never fires early.                              *)
(***************************************************************************)
\* the number of milliseconds d is at least n * 1000
AtLeastSeconds(d, n) == d \div 1000 >= n

\* C17: when the interval timer armed at last.t1 for the accepted N =
\* config.refreshEvery fires at last.t2, at least N * 1000 ms have elapsed,
\* also for N > 2147483.
C17_EveryNotEarly ==
    page = "loading" /\ last.op = "every" =>
        AtLeastSeconds(last.t2 - last.t1, config.refreshEvery.v)

(***************************************************************************)
(* C18  A page loaded exactly at the target instant waits a day.           *)
(***************************************************************************)
OnlyAt == AtIsHHMM /\ ~everyParam.present

\* the page was loaded by the reload that has just happened
LoadedByReload ==
    /\ page = "loaded" /\ reloadedAt # <<>>
    /\ loadedAt = reloadedAt[Len(reloadedAt)]

C19_HandleImpliesConfig ==
    /\ Truthy(refreshEveryTimeout) =>
           config.refreshEvery.t = "num" /\ config.refreshEvery.v > 0
    /\ Truthy(refreshAtTimeout) => config.refreshAt.set
    /\ MsgInvalidEvery \in Messages =>
           ~Truthy(refreshEveryTimeout) /\ PendingEvery = {} /\ config.refreshEvery = Null
    /\ MsgInvalidAt \in Messages =>
           ~Truthy(refreshAtTimeout) /\ PendingAt = {} /\ config.refreshAt = NoRefreshAt

\* one directive was accepted and has its handle, the other was rejected
C19_Witness ==
    /\ page = "loaded" /\ last.op = "init"
    /\ Truthy(refreshEveryTimeout) /\ config.refreshEvery = Num(20)
    /\ MsgInvalidAt \in Messages /\ refreshAtTimeout = Null

(***************************************************************************)
(* C20  One message per processed directive.                               *)
(***************************************************************************)
Count(Test(_)) ==
    Cardinality({i \in 1..Len(config.statusMessages) : Test(config.statusMessages[i])})

IsNoneMessage(m) == m = MsgNone

\* C20: after a single init() on a fresh instance statusMessages has exactly
\* one message for each directive processed (each parameter with a non-empty
\* value) and no other, or exactly the no-auto-refresh message when none was
\* processed: its length is 1 or 2.
C20_OneMessagePerDirective ==
    AfterFirstInit =>
        /\ Len(config.statusMessages) \in {1, 2}
        /\ Count(IsEveryMessage) = IF TruthyParam(everyParam) THEN 1 ELSE 0
        /\ Count(IsAtMessage) = IF TruthyParam(atParam) THEN 1 ELSE 0
        /\ Count(IsNoneMessage) =
               IF TruthyParam(everyParam) \/ TruthyParam(atParam) THEN 0 ELSE 1
        /\ Len(config.statusMessages) =
               Count(IsEveryMessage) + Count(IsAtMessage) + Count(IsNoneMessage)

\* a rejection and a confirmation, in the order the directives are processed
C20_Witness ==
    /\ AfterFirstInit
    /\ Len(config.statusMessages) = 2
    /\ config.statusMessages[1] = MsgInvalidEvery
    /\ IsAtMessage(config.statusMessages[2]) /\ Truthy(refreshAtTimeout)

(***************************************************************************)
(* C21  A parameter with an empty value counts as absent.                  *)
(***************************************************************************)
IsEmptyParam(p) == p.present /\ p.s = <<>>
HasValue(p) == p.present /\ p.s # <<>>

\* C21: after the first init(), a parameter present with an empty value has
\* no message of its own, no timer, no handle and no stored value; the
\* instance is the one the other parameter alone would have produced, and
\* when the other has no value either it is a fresh instance with exactly
\* the no-auto-refresh message.
C21_EmptyIsAbsent ==
    AfterFirstInit =>
        /\ IsEmptyParam(everyParam) =>
               /\ Count(IsEveryMessage) = 0 /\ PendingEvery = {}
               /\ refreshEveryTimeout = Null /\ config.refreshEvery = Null
               /\ HasValue(atParam) =>
                      Self = setupRefreshAt(constructor, atParam, last.t1, last.t2)
        /\ IsEmptyParam(atParam) =>
               /\ Count(IsAtMessage) = 0 /\ PendingAt = {}
               /\ refreshAtTimeout = Null /\ config.refreshAt = NoRefreshAt
               /\ HasValue(everyParam) =>
                      Self = setupRefreshEvery(constructor, everyParam.s, last.t1)
        /\ (IsEmptyParam(everyParam) \/ IsEmptyParam(atParam))
               /\ ~HasValue(everyParam) /\ ~HasValue(atParam) =>
               Self = push(constructor, MsgNone)

\* refresh_every= is empty next to a refresh_at that armed its timer
C21_Witness ==
    /\ AfterFirstInit
    /\ IsEmptyParam(everyParam) /\ HasValue(atParam)
    /\ Truthy(refreshAtTimeout) /\ Len(config.statusMessages) = 1

(***************************************************************************)
(* C22  The delay of the absolute-time timer is in (0, 24 hours].          *)
(***************************************************************************)
\* the argument of a setTimeout call in milliseconds, when it is a number
\* of at most two days
ArgMs(tm) == tm.arg.s * 1000 + tm.arg.ms

\* the timer was armed at hh:mm:00.000 exactly
ArmedAtTarget(tm) == tm.at = Instant(tm.at \div DayMs, AtHH, AtMM, 0, 0)

====
